---- MODULE Spec2Model ----
(***************************************************************************)
(* A model of the gesture hub (PythonProject/Gestures.py) and of the       *)
(* translation controller (PythonProject/TranslationController.py).        *)
(*                                                                         *)
(* Text is modelled as a sequence of tokens: "SAY:", "FORCE:", "LANG:",    *)
(* gesture names and plain words.  Python's  x in message  is membership   *)
(* of the token in the sequence and  message.split(x)  cuts the sequence   *)
(* at the occurrences of x, so routing by substring is computed, not       *)
(* assumed.  One read returns one message (spec 4.3).                      *)
(*                                                                         *)
(* Three specifications share the module.  SpecHub runs the hub process:   *)
(* the accept loop, one reader per connection, the camera loop, the        *)
(* clock.  SpecSend runs send_signal alone, from every registry and with   *)
(* every set of failing writes.  SpecCtl runs the controller process: its  *)
(* reader loop, the processing of a stopped session, the replay threads,   *)
(* and the hub as seen from the controller (what a peer sends comes back   *)
(* routed by the hub's own routing operators).                             *)
(***************************************************************************)
EXTENDS Integers, Sequences, FiniteSets, TLC

\* ------------------------------------------------------------------ bounds
\* Connection slots of the hub (socket objects alive at one time).
NumConns == 2
\* Last tick of the hub clock; one tick is 0.3 s.
MaxTime == 3

\* Last tick of the controller clock; one tick is 0.5 s.
MaxCtlTime == 12
\* Records a session's tape may hold.
MaxTape == 1
\* Messages that may wait unread in the controller's socket.
MaxSock == 1
\* Records of a tape handed to replay_gestures on its own (SpecReplay).
MaxRecs == 2
\* Latest time stamp of such a record.
MaxRecTime == 2

\* --------------------------------------------------------------- constants
\* Gestures.py:101  time.time() + 0.3, in ticks of 0.3 s.
OverrideTicks == 1
\* TranslationController.py:302  debounce_seconds = 1.5, in ticks of 0.5 s.
DebounceTicks == 3
\* TranslationController.py:180  time.sleep(0.5), in ticks of 0.5 s.
SleepTicks == 1
\* The controller's clock when main() starts: time.time() is far more than
\* debounce_seconds past last_trigger_time = 0 (TranslationController.py:301).
StartTime == 4

VARIABLES
    \* ---- hub process (Gestures.py)
    server_started,   \* "pending" | "ok" | "failed": outcome of start_server
    hubPc,            \* position of detect_gestures
    clients,          \* SimpleServer.clients, a list of connections
    connState,        \* per connection: "free" | "open" | "closed" (peer gone)
    rpc,              \* per connection: position of its handle_client thread
    rval,             \* per connection: the value its thread is about to store
    override_until,   \* SimpleServer.override_until
    now,              \* time.time() of the hub, in ticks
    final_output,     \* camera loop: label that passed the override check
    last_output,      \* camera loop: last label sent
    lastCall,         \* the latest send_signal call: who called, routing what, with what
    \* ---- send_signal, run on its own (SpecSend)
    wire,             \* per connection: the bytes the latest call wrote to it
    sendErr,          \* the connections whose sendall raised in the latest call
    \* ---- send_signal, statement by statement (SpecLock)
    lock,             \* self.lock: the set of its holders; 0 is the camera loop, c the reader of c
    sendIdx,          \* for client in self.clients: the place of the holder's loop
    blockedOn,        \* the connections on which a sendall has not returned
    \* ---- controller process (TranslationController.py)
    cnow,             \* time.time() of the controller, in ticks
    recording,        \* global recording
    current_role,     \* global current_role
    heap,             \* the list objects created for gesture_tape, by identity
    gesture_tape,     \* global gesture_tape: the identity of the list it is bound to
    start_record_time,\* global start_record_time
    last_trigger_time,\* main: last_trigger_time
    ctlPc,            \* position of main: "recv" | "stopped" | "speaking"
    wake,             \* speak_text: when its time.sleep(0.5) returns
    sock,             \* what the hub has written to client_socket and main has not read
    replays,          \* the replay_gestures threads, in order of creation
    processed         \* how the processing of the latest stop ended: "none" (pending or no stop yet) | "abort" | "speak"

hubVars == <<server_started, hubPc, clients, connState, rpc, rval,
             override_until, now, final_output, last_output, lastCall>>

sendVars == <<wire, sendErr, lock, sendIdx, blockedOn>>

ctlVars == <<cnow, recording, current_role, heap, gesture_tape, start_record_time,
             last_trigger_time, ctlPc, wake, sock, replays, processed>>

vars == <<hubVars, sendVars, ctlVars>>

Conns == 1..NumConns

\* ------------------------------------------------------------------- text
NoMsg == <<>>

Contains(tok, m) == \E i \in DOMAIN m : m[i] = tok

\* Index of the first occurrence of tok in m at or after position from; 0 if none.
FirstAt(tok, m, from) ==
    IF \E i \in from..Len(m) : m[i] = tok
    THEN CHOOSE i \in from..Len(m) : m[i] = tok /\ \A j \in from..(i-1) : m[j] # tok
    ELSE 0

\* message.split(tok)[1]: the text between the first occurrence of tok and the
\* next one (or the end).  Only used when tok occurs in m.
SplitSecond(tok, m) ==
    LET i == FirstAt(tok, m, 1)
        j == FirstAt(tok, m, i + 1)
    IN  SubSeq(m, i + 1, IF j = 0 THEN Len(m) ELSE j - 1)

\* The text after the first occurrence of tok.
AfterPrefix(tok, m) == SubSeq(m, FirstAt(tok, m, 1) + 1, Len(m))

RECURSIVE SeqToSet(_)
SeqToSet(s) == IF s = <<>> THEN {} ELSE {Head(s)} \cup SeqToSet(Tail(s))

\* ------------------------------------------------------------ hub: inputs
\* What a peer may write to its connection.
PeerMsgs ==
    { <<"SAY:", "hello">>,
      <<"SAY:", "use", "FORCE:", "now">>,
      <<"FORCE:", "Open_Palm">>,
      <<"LANG:", "English">>,
      <<"Open_Palm">> }

\* What the recognizer may produce for a frame (final_output).
LiveLabels == { <<"NONE">>, <<"Open_Palm">> }

\* ------------------------------------------------------ hub: handle_client
\* A routing that relays every message of neither case as speech.
RouteRelaysRest(message) ==
    IF Contains("FORCE:", message) /\ ~Contains("SAY:", message) THEN "force"
    ELSE "say"

\* The routing of handle_client: if "SAY:" in message / elif "FORCE:" in message.
Route(message) ==
    IF Contains("SAY:", message) THEN "say"
    ELSE IF Contains("FORCE:", message) THEN "force"
    ELSE "none"

\* The relay with the prefix cut off.
SayPayloadStripped(message) == AfterPrefix("SAY:", message)

\* Case 1 relays the message as read: self.send_signal(message).
SayPayload(message) == message

\* Case 2 relays  message.split("FORCE:")[1].
ForcePayload(message) == SplitSecond("FORCE:", message)

\* A deadline with no window added.
RaiseNoWindow(t) == t

\* time.time() + 0.3
RaiseTo(t) == t + OverrideTicks

\* --------------------------------------------------------- hub: send_signal
NoWire == [c \in Conns |-> NoMsg]

\* The loop without the try/except inside it: the first failure ends the loop.
RECURSIVE SendLoopAbort(_, _, _, _)
SendLoopAbort(cl, message, failed, w) ==
    IF cl = <<>> THEN w
    ELSE IF Head(cl) \in failed THEN w
    ELSE SendLoopAbort(Tail(cl), message, failed, [w EXCEPT ![Head(cl)] = message])

\* for client in self.clients: try: client.sendall(message.encode()) except: pass
\* failed is the set of connections whose sendall raises; w maps each
\* connection to the bytes written to it so far.
RECURSIVE SendLoop(_, _, _, _)
SendLoop(cl, message, failed, w) ==
    IF cl = <<>> THEN w
    ELSE SendLoop(Tail(cl), message, failed,
                  IF Head(cl) \in failed THEN w ELSE [w EXCEPT ![Head(cl)] = message])

\* A write can fail only on a connection whose peer is gone.
MayFail == { c \in SeqToSet(clients) : connState[c] = "closed" }

NoCall == [origin |-> "none", src |-> NoMsg, msg |-> NoMsg]

\* A call of send_signal(message) by origin while routing src.  The loop runs
\* under self.lock and changes neither the registry nor the override
\* deadline; what it writes to the connections is SendLoop, run in SpecSend.
SendSignal(origin, src, message) ==
    lastCall' = [origin |-> origin, src |-> src, msg |-> message]

\* ------------------------------------------------------ hub: registry
\* A cleanup that removes nothing.
KeepAll(cl, c) == cl

\* if client_socket in self.clients: self.clients.remove(client_socket)
RECURSIVE RemoveClient(_, _)
RemoveClient(cl, c) ==
    IF cl = <<>> THEN <<>>
    ELSE IF Head(cl) = c THEN Tail(cl)
    ELSE <<Head(cl)>> \o RemoveClient(Tail(cl), c)

\* ------------------------------------------------------ controller: Init
\* Module level: recording = False, current_role = None, gesture_tape = [],
\* start_record_time = 0; main(): last_trigger_time = 0.
InitCtl ==
    /\ cnow = StartTime
    /\ recording = FALSE
    /\ current_role = "None"
    /\ heap = << <<>> >>
    /\ gesture_tape = 1
    /\ start_record_time = 0
    /\ last_trigger_time = 0
    /\ ctlPc = "recv"
    /\ wake = 0
    /\ sock = <<>>
    /\ replays = <<>>
    /\ processed = "none"

\* ------------------------------------------------------------- hub: Init
InitHub ==
    /\ server_started = "pending"
    /\ hubPc = "construct"
    /\ clients = <<>>
    /\ connState = [c \in Conns |-> "free"]
    /\ rpc = [c \in Conns |-> "none"]
    /\ rval = [c \in Conns |-> 0]
    /\ override_until = 0
    /\ now = 1
    /\ final_output = NoMsg
    /\ last_output = NoMsg
    /\ lastCall = NoCall
    /\ wire = NoWire
    /\ sendErr = {}
    /\ lock = {}
    /\ sendIdx = 0
    /\ blockedOn = {}

HubAlive == hubPc # "exited"

\* ---------------------------------------------------------- hub: actions
\* SimpleServer.__init__ / start_server: bind and listen succeed or raise; the
\* exception is caught and printed, and the constructor returns either way.
StartServer ==
    /\ hubPc = "construct"
    /\ \E ok \in BOOLEAN : server_started' = IF ok THEN "ok" ELSE "failed"
    /\ hubPc' = "camera"
    /\ UNCHANGED <<clients, connState, rpc, rval, override_until, now,
                   final_output, last_output, lastCall, sendVars, ctlVars>>

\* cv2.VideoCapture(0) and the model file: on failure detect_gestures returns.
OpenCamera ==
    /\ hubPc = "camera"
    /\ \E ok \in BOOLEAN : hubPc' = IF ok THEN "loop" ELSE "exited"
    /\ UNCHANGED <<server_started, clients, connState, rpc, rval,
                   override_until, now, final_output, last_output, lastCall, sendVars, ctlVars>>

\* One frame of the camera loop up to the override check: the recognizer
\* yields out; it goes on to send_signal only if the check and the
\* change-of-label test pass.
LiveFrame ==
    /\ hubPc = "loop"
    /\ \E out \in LiveLabels :
          IF now > override_until /\ out # last_output
          THEN hubPc' = "send" /\ final_output' = out
          ELSE UNCHANGED <<hubPc, final_output>>
    /\ UNCHANGED <<server_started, clients, connState, rpc, rval,
                   override_until, now, last_output, lastCall, sendVars, ctlVars>>

\* server.send_signal(final_output); last_output = final_output
LiveSend ==
    /\ hubPc = "send"
    /\ SendSignal("live", final_output, final_output)
    /\ last_output' = final_output
    /\ final_output' = NoMsg
    /\ hubPc' = "loop"
    /\ UNCHANGED <<server_started, clients, connState, rpc, rval,
                   override_until, now, sendVars, ctlVars>>

\* accept_connections: accept() returns a new socket; it is appended under the
\* lock and its handle_client thread is started.
Accept ==
    /\ HubAlive /\ server_started = "ok"
    /\ \E c \in Conns :
          /\ connState[c] = "free"
          /\ \A d \in 1..(c-1) : connState[d] # "free"     \* the next unused socket
          /\ connState' = [connState EXCEPT ![c] = "open"]
          /\ clients' = Append(clients, c)
          /\ rpc' = [rpc EXCEPT ![c] = "recv"]
    /\ UNCHANGED <<server_started, hubPc, rval, override_until, now,
                   final_output, last_output, lastCall, sendVars, ctlVars>>

\* The peer closes the connection, or it breaks.
Disconnect(c) ==
    /\ HubAlive /\ connState[c] = "open"
    /\ connState' = [connState EXCEPT ![c] = "closed"]
    /\ UNCHANGED <<server_started, hubPc, clients, rpc, rval,
                   override_until, now, final_output, last_output, lastCall, sendVars, ctlVars>>

\* handle_client: recv returns no data or raises; the loop is left and the
\* cleanup removes the connection under the lock; the thread ends.
ReaderCleanup(c) ==
    /\ HubAlive /\ rpc[c] = "recv" /\ connState[c] = "closed"
    /\ clients' = RemoveClient(clients, c)
    /\ rpc' = [rpc EXCEPT ![c] = "none"]
    /\ connState' = [connState EXCEPT ![c] = "free"]
    /\ UNCHANGED <<server_started, hubPc, rval, override_until, now,
                   final_output, last_output, lastCall, sendVars, ctlVars>>

\* handle_client: a message that is neither case is read and nothing is done.
ReaderDrop(c, message) ==
    /\ HubAlive /\ rpc[c] = "recv" /\ connState[c] = "open"
    /\ Route(message) = "none"
    /\ UNCHANGED vars

\* Case 1: self.send_signal(message)
ReaderSay(c, message) ==
    /\ HubAlive /\ rpc[c] = "recv" /\ connState[c] = "open"
    /\ Route(message) = "say"
    /\ SendSignal("say", message, SayPayload(message))
    /\ UNCHANGED <<server_started, hubPc, clients, connState, rpc, rval,
                   override_until, now, final_output, last_output, sendVars, ctlVars>>

\* Case 2, first statements: gesture = message.split("FORCE:")[1];
\* self.send_signal(gesture)
ReaderForce(c, message) ==
    /\ HubAlive /\ rpc[c] = "recv" /\ connState[c] = "open"
    /\ Route(message) = "force"
    /\ SendSignal("force", message, ForcePayload(message))
    /\ rpc' = [rpc EXCEPT ![c] = "raise"]
    /\ UNCHANGED <<server_started, hubPc, clients, connState, rval,
                   override_until, now, final_output, last_output, sendVars, ctlVars>>

\* Case 2, last statement, right-hand side: time.time() + 0.3
ReaderRaise(c) ==
    /\ HubAlive /\ rpc[c] = "raise"
    /\ rval' = [rval EXCEPT ![c] = RaiseTo(now)]
    /\ rpc' = [rpc EXCEPT ![c] = "store"]
    /\ UNCHANGED <<server_started, hubPc, clients, connState, override_until, now,
                   final_output, last_output, lastCall, sendVars, ctlVars>>

\* Case 2, last statement, the assignment: self.override_until = <value>
ReaderStore(c) ==
    /\ HubAlive /\ rpc[c] = "store"
    /\ override_until' = rval[c]
    /\ rval' = [rval EXCEPT ![c] = 0]
    /\ rpc' = [rpc EXCEPT ![c] = "recv"]
    /\ UNCHANGED <<server_started, hubPc, clients, connState, now,
                   final_output, last_output, lastCall, sendVars, ctlVars>>

\* The hub's clock advances.
Tick ==
    /\ HubAlive /\ now < MaxTime
    /\ now' = now + 1
    /\ UNCHANGED <<server_started, hubPc, clients, connState, rpc, rval,
                   override_until, final_output, last_output, lastCall, sendVars, ctlVars>>

NextHub ==
    \/ StartServer
    \/ OpenCamera
    \/ LiveFrame
    \/ LiveSend
    \/ Accept
    \/ \E c \in Conns : Disconnect(c)
    \/ \E c \in Conns : ReaderCleanup(c)
    \/ \E c \in Conns, m \in PeerMsgs : ReaderDrop(c, m)
    \/ \E c \in Conns, m \in PeerMsgs : ReaderSay(c, m)
    \/ \E c \in Conns, m \in PeerMsgs : ReaderForce(c, m)
    \/ \E c \in Conns : ReaderRaise(c)
    \/ \E c \in Conns : ReaderStore(c)
    \/ Tick

\* Both processes as they are after start-up.
Init == InitHub /\ InitCtl

SpecHub == Init /\ [][NextHub]_vars

\* ------------------------------------------------- send_signal on its own
\* Every argument the hub's callers hand to send_signal.
SendArgs ==
    LiveLabels
    \cup { SayPayload(m) : m \in { x \in PeerMsgs : Route(x) = "say" } }
    \cup { ForcePayload(m) : m \in { x \in PeerMsgs : Route(x) = "force" } }

\* The registries the hub can hold: each connection at most once, each
\* registered connection open or already closed by its peer.
RECURSIVE Registries(_)
Registries(free) ==
    {<<>>} \cup UNION { { <<c>> \o r : r \in Registries(free \ {c}) } : c \in free }

InitSend ==
    /\ server_started = "ok"
    /\ hubPc = "loop"
    /\ clients \in Registries(Conns)
    /\ connState \in [Conns -> {"free", "open", "closed"}]
    /\ \A c \in Conns : connState[c] = "free" <=> c \notin SeqToSet(clients)
    /\ rpc = [c \in Conns |-> IF c \in SeqToSet(clients) THEN "recv" ELSE "none"]
    /\ rval = [c \in Conns |-> 0]
    /\ override_until = 0
    /\ now = 1
    /\ final_output = NoMsg
    /\ last_output = NoMsg
    /\ lastCall = NoCall
    /\ wire = NoWire
    /\ sendErr = {}
    /\ lock = {}
    /\ sendIdx = 0
    /\ blockedOn = {}

\* send_signal(message): the loop over self.clients under the lock.
SendSignalRun(message) ==
    /\ \E failed \in SUBSET MayFail :
          /\ wire' = SendLoop(clients, message, failed, NoWire)
          /\ sendErr' = failed
          /\ UNCHANGED <<lock, sendIdx, blockedOn>>
    /\ lastCall' = [origin |-> "call", src |-> message, msg |-> message]
    /\ UNCHANGED <<server_started, hubPc, clients, connState, rpc, rval,
                   override_until, now, final_output, last_output, ctlVars>>

NextSend ==
    \/ \E m \in SendArgs : SendSignalRun(m)
    \/ \E c \in Conns : Disconnect(c)

InitCall == InitSend /\ InitCtl

SpecSend == InitCall /\ [][NextSend]_vars

\* ------------------------------------------------------ controller: inputs
\* The labels the hub's camera loop may broadcast to the controller.  A
\* two-hand frame carries both gestures in one label.
CtlLabels ==
    { <<"NONE">>, <<"Pointing_Up">>, <<"Victory">>, <<"ILoveYou">>,
      <<"Pointing_Up", "Victory">> }

\* speak_text: lang_msg = f"LANG:{nao_lang_setting}"
LangMsg == <<"LANG:", "English">>

\* speak_text: msg = f"SAY:{clean_text}"
SayMsg == <<"SAY:", "hello">>

\* replay_gestures: msg = f"FORCE:{record['gesture']}"
ForceMsg(gesture) == <<"FORCE:">> \o gesture

\* ------------------------------------------------- controller: hub as seen
\* What the hub writes to the controller's socket when a peer sends message:
\* handle_client's routing and payloads; a message of neither case is dropped.
HubRelay(message) ==
    IF Route(message) = "say"
    THEN << [msg |-> SayPayload(message), origin |-> "say"] >>
    ELSE IF Route(message) = "force"
    THEN << [msg |-> ForcePayload(message), origin |-> "forced"] >>
    ELSE <<>>

\* ------------------------------------------------------- controller: main
\* The list gesture_tape is bound to.
Tape == heap[gesture_tape]

\* if "SAY:" not in message and "FORCE:" not in message
Captured(message) == ~Contains("SAY:", message) /\ ~Contains("FORCE:", message)

\* A capture that leaves the stop gesture out of the tape.
CaptureSkipsStop(rec, message) ==
    rec /\ Captured(message) /\ ~Contains("ILoveYou", message)

\* A capture that does not look at recording.
CaptureAlways(rec, message) == Captured(message)

\* if recording: ... if "SAY:" not in message and "FORCE:" not in message:
\* whether main appends message to gesture_tape.
ShouldCapture(rec, message) == rec /\ Captured(message)

\* A main loop without the debounce test.
DebounceOff(current_time, last) == TRUE

\* A debounce test that also rejects a trigger 2.0 s after the last one.
DebounceTooLong(current_time, last) == current_time - last > DebounceTicks + 1

\* if current_time - last_trigger_time > debounce_seconds
DebouncePassed(current_time, last) == current_time - last > DebounceTicks

\* A dispatch that takes a start trigger whatever the state.
TriggerAlwaysStart(message, rec) ==
    IF Contains("ILoveYou", message) /\ rec THEN "stop"
    ELSE IF Contains("Pointing_Up", message) THEN "English"
    ELSE IF Contains("Victory", message) THEN "Foreign"
    ELSE "none"

\* The if / elif / elif of main: which branch a message takes.
Trigger(message, rec) ==
    IF Contains("ILoveYou", message) /\ rec THEN "stop"
    ELSE IF Contains("Pointing_Up", message) /\ ~rec THEN "English"
    ELSE IF Contains("Victory", message) /\ ~rec THEN "Foreign"
    ELSE "none"

\* The kind of trigger a message carries, whatever the state.
TriggerKind(message) ==
    IF Contains("ILoveYou", message) THEN "stop"
    ELSE IF Contains("Pointing_Up", message) THEN "startA"
    ELSE IF Contains("Victory", message) THEN "startB"
    ELSE "none"

\* ---------------------------------------------------- controller: lists
\* A list object is alive while gesture_tape is bound to it or a replay
\* thread's second loop iterates it; a dead list's slot is emptied and reused.
Referenced(id, tapeRef, threads) ==
    \/ id = tapeRef
    \/ \E i \in DOMAIN threads : threads[i].pc = "play" /\ threads[i].list = id

Collect(h, tapeRef, threads) ==
    [id \in DOMAIN h |-> IF Referenced(id, tapeRef, threads) THEN h[id] ELSE <<>>]

\* gesture_tape = []: where the new list object goes.
NewList(h, tapeRef, threads) ==
    IF \E id \in DOMAIN h : ~Referenced(id, tapeRef, threads)
    THEN CHOOSE id \in DOMAIN h :
            /\ ~Referenced(id, tapeRef, threads)
            /\ \A j \in 1..(id-1) : Referenced(j, tapeRef, threads)
    ELSE Len(h) + 1

\* The threads that have not ended.
RECURSIVE Running(_)
Running(threads) ==
    IF threads = <<>> THEN <<>>
    ELSE IF Head(threads).pc = "done" THEN Running(Tail(threads))
    ELSE <<Head(threads)>> \o Running(Tail(threads))

\* One turn of main's while loop on the message m just read: capture,
\* debounce and dispatch, with start_recording (new list, new start time) or
\* the first statements of stop_and_process (recording = False) inside it.
MainTurn(m) ==
    LET message == m.msg
        current_time == cnow
        captured == ShouldCapture(recording, message)
        heap1 == IF captured
                 THEN [heap EXCEPT ![gesture_tape] =
                         Append(@, [time |-> current_time - start_record_time,
                                    gesture |-> message, origin |-> m.origin])]
                 ELSE heap
        branch == IF DebouncePassed(current_time, last_trigger_time)
                  THEN Trigger(message, recording) ELSE "none"
        fresh == NewList(heap1, 0, replays)
    IN  IF branch = "stop"
        THEN /\ recording' = FALSE
             /\ last_trigger_time' = current_time
             /\ ctlPc' = "stopped"
             /\ processed' = "none"
             /\ heap' = heap1
             /\ UNCHANGED <<current_role, gesture_tape, start_record_time>>
        ELSE IF branch \in {"English", "Foreign"}
        THEN /\ current_role' = branch
             /\ recording' = TRUE
             /\ gesture_tape' = fresh
             /\ heap' = IF fresh > Len(heap1)
                        THEN Append(Collect(heap1, 0, replays), <<>>)
                        ELSE [Collect(heap1, 0, replays) EXCEPT ![fresh] = <<>>]
             /\ start_record_time' = cnow
             /\ last_trigger_time' = current_time
             /\ UNCHANGED <<ctlPc, processed>>
        ELSE /\ heap' = heap1
             /\ UNCHANGED <<recording, current_role, gesture_tape,
                            start_record_time, last_trigger_time, ctlPc, processed>>

\* The tape bound: a message that would be captured is read only while the
\* tape has room.
HasRoom(message) == ShouldCapture(recording, message) => Len(Tape) < MaxTape

\* data = client_socket.recv(1024) returns a label the hub's camera loop has
\* just broadcast: the socket delivers in order, so everything the hub wrote
\* before it has been read.
MainRecvLive(label) ==
    /\ ctlPc = "recv" /\ sock = <<>> /\ HasRoom(label)
    /\ MainTurn([msg |-> label, origin |-> "live"])
    /\ UNCHANGED <<cnow, wake, sock, replays, hubVars, sendVars>>

\* data = client_socket.recv(1024) returns a message the hub has relayed.
MainRecvRelayed ==
    /\ ctlPc = "recv" /\ sock # <<>> /\ HasRoom(Head(sock).msg)
    /\ MainTurn(Head(sock))
    /\ sock' = Tail(sock)
    /\ UNCHANGED <<cnow, wake, replays, hubVars, sendVars>>

NewReplay == [pc |-> "start", list |-> 0, idx |-> 0, first |-> 0, start |-> 0]

DoneReplay == [pc |-> "done", list |-> 0, idx |-> 0, first |-> 0, start |-> 0]

\* An exception that is not caught: main's loop is left.
AfterAbortExit == "exited"

\* process_smart_translation: except Exception as e: print(...); the call
\* returns and main goes back to its loop.  The early returns of
\* stop_and_process (no audio, silence) end the same way.
AfterAbort == "recv"

\* A speak_text that starts the thread twice.
SpawnedTwice(tape, threads) == Append(Append(threads, NewReplay), NewReplay)

\* speak_text: if gesture_tape: threading.Thread(target=replay_gestures).start()
Spawned(tape, threads) ==
    IF tape # <<>> THEN Append(threads, NewReplay) ELSE threads

\* The rest of stop_and_process: the audio is missing or silent, or a cloud
\* call raises, or the transcription is empty, and the session ends there
\* (outcome "abort"); or process_smart_translation reaches speak_text, which
\* starts a replay thread if gesture_tape is not empty, connects to the hub
\* (or fails to), sends LANG: (which the hub drops) and sleeps.
Process ==
    /\ ctlPc = "stopped"
    /\ \E outcome \in {"abort", "speak"}, connected \in BOOLEAN :
          /\ processed' = outcome
          /\ IF outcome = "abort"
             THEN /\ ctlPc' = AfterAbort
                  /\ UNCHANGED <<replays, wake>>
             ELSE /\ replays' = Spawned(Tape, replays)
                  /\ IF connected /\ HubRelay(LangMsg) = <<>>
                     THEN ctlPc' = "speaking" /\ wake' = cnow + SleepTicks
                     ELSE ctlPc' = "recv" /\ UNCHANGED wake
    /\ UNCHANGED <<cnow, recording, current_role, heap, gesture_tape, start_record_time,
                   last_trigger_time, sock, hubVars, sendVars>>

\* speak_text after the sleep: temp_sock.sendall("SAY:..."), which the hub
\* relays to every peer, the controller included; temp_sock.close().
SpeakSay ==
    /\ ctlPc = "speaking" /\ cnow >= wake
    /\ sock' = sock \o HubRelay(SayMsg)
    /\ ctlPc' = "recv"
    /\ wake' = 0
    /\ UNCHANGED <<cnow, recording, current_role, heap, gesture_tape, start_record_time,
                   last_trigger_time, replays,
                   processed, hubVars, sendVars>>

\* ------------------------------------------------ controller: replay thread
\* Index of the first record of tape whose gesture has no "NONE"; 0 if none.
FirstMove(tape) ==
    IF \E i \in DOMAIN tape : ~Contains("NONE", tape[i].gesture)
    THEN CHOOSE i \in DOMAIN tape :
            /\ ~Contains("NONE", tape[i].gesture)
            /\ \A j \in 1..(i-1) : Contains("NONE", tape[j].gesture)
    ELSE 0

\* replay_gestures: if not gesture_tape: return; then the connect, which may
\* raise (the except clause ends the thread).
ReplayStart(i) ==
    /\ replays[i].pc = "start"
    /\ \E connected \in BOOLEAN :
          replays' = Running([replays EXCEPT ![i] =
                                IF Tape # <<>> /\ connected
                                THEN [@ EXCEPT !.pc = "scan"] ELSE DoneReplay])
    /\ UNCHANGED <<cnow, recording, current_role, heap, gesture_tape, start_record_time,
                   last_trigger_time, ctlPc, wake, sock,
                   processed, hubVars, sendVars>>

\* The first loop: first_move_time is the time of the first record without
\* "NONE", or stays 0.
ReplayScan(i) ==
    /\ replays[i].pc = "scan"
    /\ replays' = [replays EXCEPT ![i] =
                     [@ EXCEPT !.pc = "bind",
                               !.first = IF FirstMove(Tape) = 0 THEN 0
                                         ELSE Tape[FirstMove(Tape)].time]]
    /\ UNCHANGED <<cnow, recording, current_role, heap, gesture_tape, start_record_time,
                   last_trigger_time, ctlPc, wake, sock,
                   processed, hubVars, sendVars>>

\* start_playback = time.time(); for record in gesture_tape: the loop runs
\* over the list gesture_tape is bound to at this moment.
ReplayBind(i) ==
    /\ replays[i].pc = "bind"
    /\ replays' = [replays EXCEPT ![i] =
                     [@ EXCEPT !.pc = "play", !.list = gesture_tape, !.idx = 1,
                               !.start = cnow]]
    /\ UNCHANGED <<cnow, recording, current_role, heap, gesture_tape, start_record_time,
                   last_trigger_time, ctlPc, wake, sock,
                   processed, hubVars, sendVars>>

\* One turn of the second loop: the list is exhausted and the socket closed;
\* or the record is before first_move_time and skipped; or the thread has
\* slept until its target time and sends FORCE:<gesture>, which the hub
\* routes and writes to the controller's socket.
ReplayStep(i) ==
    /\ replays[i].pc = "play"
    /\ LET r == replays[i]
           tape == heap[r.list]
           ended == Running([replays EXCEPT ![i] = DoneReplay])
       IN  IF r.idx > Len(tape)
           THEN /\ replays' = ended
                /\ heap' = Collect(heap, gesture_tape, ended)
                /\ UNCHANGED sock
           ELSE IF tape[r.idx].time < r.first
           THEN /\ replays' = [replays EXCEPT ![i] = [@ EXCEPT !.idx = r.idx + 1]]
                /\ UNCHANGED <<heap, sock>>
           ELSE /\ cnow >= r.start + (tape[r.idx].time - r.first)
                /\ Len(sock) < MaxSock
                /\ sock' = sock \o HubRelay(ForceMsg(tape[r.idx].gesture))
                /\ replays' = [replays EXCEPT ![i] = [@ EXCEPT !.idx = r.idx + 1]]
                /\ UNCHANGED heap
    /\ UNCHANGED <<cnow, recording, current_role, gesture_tape, start_record_time,
                   last_trigger_time, ctlPc, wake, processed, hubVars, sendVars>>

\* ------------------------------------------------- controller: environment
\* The controller's clock advances.
CtlTick ==
    /\ cnow < MaxCtlTime
    /\ cnow' = cnow + 1
    /\ UNCHANGED <<recording, current_role, heap, gesture_tape, start_record_time,
                   last_trigger_time, ctlPc, wake, sock, replays,
                   processed, hubVars, sendVars>>

NextCtl ==
    \/ \E label \in CtlLabels : MainRecvLive(label)
    \/ MainRecvRelayed
    \/ Process
    \/ SpeakSay
    \/ \E i \in DOMAIN replays : ReplayStart(i)
    \/ \E i \in DOMAIN replays : ReplayScan(i)
    \/ \E i \in DOMAIN replays : ReplayBind(i)
    \/ \E i \in DOMAIN replays : ReplayStep(i)
    \/ CtlTick

SpecCtl == Init /\ [][NextCtl]_vars

\* ------------------------------------------- hub: send_signal and the lock
\* SpecLock runs the hub with send_signal taken statement by statement:
\* with self.lock, then one sendall per registered connection, then the
\* release.  A sendall returns, raises, or does not return while its peer
\* does not read (the sockets are blocking and have no timeout).
Camera == 0

\* The camera loop enters send_signal(final_output) and takes the lock.
CamEnter ==
    /\ hubPc = "send" /\ lock = {}
    /\ lock' = {Camera} /\ sendIdx' = 1
    /\ wire' = NoWire /\ sendErr' = {}
    /\ SendSignal("live", final_output, final_output)
    /\ hubPc' = "sending"
    /\ UNCHANGED <<server_started, clients, connState, rpc, rval, override_until, now,
                   final_output, last_output, blockedOn, ctlVars>>

\* A reader has read a SAY: or FORCE: message, enters send_signal with its
\* payload and takes the lock.
ReaderEnter(c, message) ==
    /\ HubAlive /\ rpc[c] = "recv" /\ connState[c] = "open"
    /\ Route(message) # "none"
    /\ lock = {}
    /\ lock' = {c} /\ sendIdx' = 1
    /\ wire' = NoWire /\ sendErr' = {}
    /\ IF Route(message) = "say"
       THEN SendSignal("say", message, SayPayload(message))
       ELSE SendSignal("force", message, ForcePayload(message))
    /\ rpc' = [rpc EXCEPT ![c] = "sending"]
    /\ UNCHANGED <<server_started, hubPc, clients, connState, rval, override_until, now,
                   final_output, last_output, blockedOn, ctlVars>>

\* client.sendall(message.encode()) inside the loop, by the holder of the lock.
WriteNext(t) ==
    /\ lock = {t} /\ blockedOn = {}
    /\ sendIdx \in 1..Len(clients)
    /\ \E outcome \in {"sent", "raised", "blocked"} :
          LET c == clients[sendIdx]
          IN  /\ wire' = IF outcome = "sent" THEN [wire EXCEPT ![c] = lastCall.msg]
                         ELSE wire
              /\ sendErr' = IF outcome = "raised" THEN sendErr \cup {c} ELSE sendErr
              /\ blockedOn' = IF outcome = "blocked" THEN {c} ELSE blockedOn
              /\ sendIdx' = IF outcome = "blocked" THEN sendIdx ELSE sendIdx + 1
    /\ UNCHANGED <<lock, hubVars, ctlVars>>

\* The loop is over: the with block ends and send_signal returns to the
\* camera loop (last_output = final_output) or to the reader (which goes on
\* to raise the deadline after a FORCE:).
Leave(t) ==
    /\ lock = {t} /\ blockedOn = {}
    /\ sendIdx > Len(clients)
    /\ lock' = {} /\ sendIdx' = 0
    /\ IF t = Camera
       THEN /\ hubPc' = "loop"
            /\ last_output' = final_output
            /\ final_output' = NoMsg
            /\ UNCHANGED rpc
       ELSE /\ rpc' = [rpc EXCEPT ![t] = IF lastCall.origin = "force"
                                         THEN "raise" ELSE "recv"]
            /\ UNCHANGED <<hubPc, last_output, final_output>>
    /\ UNCHANGED <<server_started, clients, connState, rval, override_until, now,
                   lastCall, wire, sendErr, blockedOn, ctlVars>>

\* accept_connections: with self.lock: self.clients.append(client_socket)
AcceptLocked == lock = {} /\ Accept

\* handle_client's cleanup: with self.lock: self.clients.remove(client_socket)
CleanupLocked(c) == lock = {} /\ ReaderCleanup(c)

NextLock ==
    \/ StartServer
    \/ OpenCamera
    \/ LiveFrame
    \/ CamEnter
    \/ AcceptLocked
    \/ \E c \in Conns : Disconnect(c)
    \/ \E c \in Conns : CleanupLocked(c)
    \/ \E c \in Conns, m \in PeerMsgs : ReaderEnter(c, m)
    \/ \E t \in {Camera} \cup Conns : WriteNext(t)
    \/ \E t \in {Camera} \cup Conns : Leave(t)
    \/ \E c \in Conns : ReaderRaise(c)
    \/ \E c \in Conns : ReaderStore(c)

SpecLock == Init /\ [][NextLock]_vars

\* ------------------------------------------------ replay_gestures on its own
\* SpecReplay runs one replay_gestures thread on a given, completed tape:
\* main takes no part, and what the hub relays is read by a sink.  The thread
\* only compares differences of clock readings with differences of time
\* stamps, so the unit of time is free here; the tape of the specification's
\* example is written in tenths of a second.
ReplayLabels == { <<"NONE">>, <<"Open_Palm">>, <<"Victory">> }

\* {'time': relative_time, 'gesture': message}
Rec(t, g) == [time |-> t, gesture |-> g, origin |-> "live"]

\* The tapes of exactly n records: time stamps never decrease, as main
\* appends them in the order it reads the clock.
RECURSIVE TapesOfLen(_)
TapesOfLen(n) ==
    IF n = 0 THEN { <<>> }
    ELSE { Append(t, Rec(u, g)) :
              t \in TapesOfLen(n - 1),
              u \in 0..MaxRecTime, g \in ReplayLabels }

Ordered(t) == \A i \in 1..(Len(t) - 1) : t[i].time <= t[i + 1].time

\* [(0.0,NONE),(0.5,NONE),(1.2,A),(1.2,A),(2.0,B)], in tenths of a second.
ExampleTape ==
    << Rec(0, <<"NONE">>), Rec(5, <<"NONE">>), Rec(12, <<"Open_Palm">>),
       Rec(12, <<"Open_Palm">>), Rec(20, <<"Victory">>) >>

GivenTapes ==
    { t \in UNION { TapesOfLen(n) : n \in 0..MaxRecs } : Ordered(t) }
    \cup { ExampleTape }

\* gesture_tape is the given tape, recording is False, and speak_text has
\* just started the thread (or replay_gestures was called directly).
InitReplay ==
    /\ InitHub
    /\ cnow = StartTime
    /\ recording = FALSE
    /\ current_role = "None"
    /\ heap \in { <<t>> : t \in GivenTapes }
    /\ gesture_tape = 1
    /\ start_record_time = 0
    /\ last_trigger_time = 0
    /\ ctlPc = "recv"
    /\ wake = 0
    /\ sock = <<>>
    /\ replays = <<NewReplay>>
    /\ processed = "speak"

\* A peer of the hub reads what the hub wrote to it.
SinkRead ==
    /\ sock # <<>>
    /\ sock' = Tail(sock)
    /\ UNCHANGED <<cnow, recording, current_role, heap, gesture_tape, start_record_time,
                   last_trigger_time, ctlPc, wake, replays, processed, hubVars, sendVars>>

NextReplay ==
    \/ \E i \in DOMAIN replays : ReplayStart(i)
    \/ \E i \in DOMAIN replays : ReplayScan(i)
    \/ \E i \in DOMAIN replays : ReplayBind(i)
    \/ \E i \in DOMAIN replays : ReplayStep(i)
    \/ SinkRead
    \/ CtlTick

SpecReplay == InitReplay /\ [][NextReplay]_vars

\* ----------------------------------------------------------------- claims
OpenConns == { c \in Conns : connState[c] = "open" }

LiveSendStep == hubPc = "send" /\ hubPc' = "loop"

\* C1: in every interleaving, no live label is handed to send_signal at a
\* moment when now < override_until.  (Stated as claimed; the camera loop
\* checks the deadline one step before it calls send_signal.)
C1_NoLiveSendInWindow == [][LiveSendStep => ~(now < override_until)]_vars

\* C2: a send_signal call writes exactly the message to every registered
\* connection whose write does not fail, writes nothing elsewhere, and leaves
\* every connection, the failing ones included, in the registry.
C2_BroadcastReachesAll ==
    lastCall.origin = "call" =>
        /\ sendErr \subseteq SeqToSet(clients)
        /\ \A c \in Conns :
              wire[c] = IF c \in SeqToSet(clients) /\ c \notin sendErr
                        THEN lastCall.msg ELSE NoMsg

\* C2 witness: the first registered connection's write failed and a later one
\* still got the message.
C2_Witness ==
    /\ lastCall.origin = "call"
    /\ Len(clients) >= 2
    /\ clients[1] \in sendErr
    /\ \E i \in 2..Len(clients) : wire[clients[i]] = lastCall.msg

\* Every reader whose connection is gone has run its cleanup.
Settled == \A c \in Conns : connState[c] # "closed"

\* C3: once the readers have settled, the registry holds exactly the open
\* connections, each once.
C3_RegistryIsOpenConns ==
    Settled =>
        /\ SeqToSet(clients) = OpenConns
        /\ Len(clients) = Cardinality(OpenConns)

\* C3 witness: connection 1 was accepted, then 2; 1 disconnected and was
\* removed; 2 is still open and registered.
C3_Witness == Settled /\ clients = <<2>> /\ connState[1] = "free"

\* C4: after a failed bind the process never reaches the camera loop or a
\* send_signal call.  (Stated as claimed.)
C4_BindFailureIsFatal == server_started = "failed" => hubPc \notin {"loop", "send"}

\* C5 as claimed: what is broadcast for a SAY: message is the text after the
\* prefix.
C5_SayPrefixStripped ==
    lastCall.origin = "say" => lastCall.msg = AfterPrefix("SAY:", lastCall.src)

\* C5 as amended: for a message containing SAY: the hub hands the whole
\* message, prefix included, to send_signal.
C5_SayRelayedWhole ==
    lastCall.origin = "say" =>
        /\ Contains("SAY:", lastCall.src)
        /\ lastCall.msg = lastCall.src
        /\ Contains("SAY:", lastCall.msg)

C5_Witness == lastCall.origin = "say" /\ Contains("FORCE:", lastCall.src)

\* C6: a message with FORCE: and without SAY: is first broadcast as the text
\* after the prefix, with the deadline untouched; the reader then reads the
\* clock, and stores that reading + 0.3 s in override_until; nothing else
\* changes override_until.
C6_ForceBroadcastThenRaise ==
    [][ /\ override_until' # override_until =>
              \E c \in Conns : /\ rpc[c] = "store" /\ rpc'[c] = "recv"
                               /\ override_until' = rval[c]
        /\ \A c \in Conns :
              /\ (rpc[c] = "recv" /\ rpc'[c] = "raise") =>
                    /\ lastCall'.origin = "force"
                    /\ Contains("FORCE:", lastCall'.src)
                    /\ ~Contains("SAY:", lastCall'.src)
                    /\ lastCall'.msg = AfterPrefix("FORCE:", lastCall'.src)
                    /\ override_until' = override_until
              /\ (lastCall' # lastCall /\ lastCall'.origin = "force") =>
                    \E d \in Conns : rpc[d] = "recv" /\ rpc'[d] = "raise"
              /\ rpc[c] = "raise" =>
                    \/ rpc'[c] = "raise"
                    \/ rpc'[c] = "store" /\ rval'[c] = now + OverrideTicks
              /\ rpc[c] = "store" =>
                    \/ rpc'[c] = "store"
                    \/ rpc'[c] = "recv" /\ override_until' = rval[c]
      ]_vars

\* C6 witness: a FORCE: label was broadcast and the deadline has been raised.
C6_Witness == lastCall.origin = "force" /\ override_until > 0

\* ------------------------------------------------- claims: trigger machine
\* The step in which main reads message from its socket and handles it.
MainRead(message) ==
    \/ MainRecvLive(message)
    \/ sock # <<>> /\ Head(sock).msg = message /\ MainRecvRelayed

\* message carries a start trigger (Pointing_Up or Victory).
StartTrigger(message) == TriggerKind(message) \in {"startA", "startB"}

\* message carries the stop trigger (ILoveYou).
StopTrigger(message) == TriggerKind(message) = "stop"

\* The kind of the trigger main acted on last: a start of the role in
\* current_role while recording, a stop otherwise.
LastAcceptedKind ==
    IF recording THEN (IF current_role = "English" THEN "startA" ELSE "startB")
    ELSE "stop"

\* A step of the trigger machine: Idle to Recording or back.
Transition == recording' # recording

\* C7: every transition is taken at least 1.5 s (DebounceTicks) after the
\* last accepted trigger and records its own time as the new last accepted
\* trigger; last_trigger_time changes in no other step; and a message read
\* less than 1.5 s after the last accepted trigger causes no transition.
C7_DebounceSeparatesTransitions ==
    [][ /\ Transition => /\ cnow - last_trigger_time >= DebounceTicks
                         /\ last_trigger_time' = cnow
        /\ last_trigger_time' # last_trigger_time => Transition
        /\ \A label \in CtlLabels :
              (MainRead(label) /\ cnow - last_trigger_time < DebounceTicks) =>
                  UNCHANGED <<recording, current_role, gesture_tape,
                              start_record_time, last_trigger_time, ctlPc>>
      ]_vars

\* C7 witness: a session is recording and its tape holds a stop trigger that
\* was read less than 1.5 s after the accepted start: it caused no transition.
C7_Witness ==
    /\ recording
    /\ \E i \in DOMAIN Tape :
          StopTrigger(Tape[i].gesture) /\ Tape[i].time < DebounceTicks

\* C8 as claimed: a trigger read 2.0 s (4 ticks) after an accepted trigger of
\* the same kind causes a transition.
C8_SameKindTwiceTwoTransitions ==
    [][ \A label \in CtlLabels :
           ( /\ MainRead(label)
             /\ last_trigger_time > 0
             /\ cnow - last_trigger_time = 4
             /\ TriggerKind(label) = LastAcceptedKind ) => Transition
      ]_vars

\* C8 as amended: a trigger read 2.0 s (4 ticks) after an accepted trigger
\* causes a transition exactly when the machine's state takes it: a stop
\* trigger while recording, a start trigger while idle.  A second trigger of
\* the kind just accepted finds the machine in the state that ignores it.
C8_AlternatingTwoTransitions ==
    [][ \A label \in CtlLabels :
           ( /\ MainRead(label)
             /\ last_trigger_time > 0
             /\ cnow - last_trigger_time = 4 ) =>
               /\ Transition <=> IF recording THEN StopTrigger(label)
                                 ELSE StartTrigger(label)
               /\ TriggerKind(label) = LastAcceptedKind => ~Transition
      ]_vars

\* C8 witness: a session started and was stopped exactly 2.0 s later: two
\* triggers 2.0 s apart, two transitions.
C8_Witness ==
    /\ ~recording /\ ctlPc = "stopped"
    /\ start_record_time > 0
    /\ last_trigger_time = start_record_time + 4

\* What a main-loop turn leaves alone when it takes no branch.
NoTransition ==
    UNCHANGED <<recording, current_role, gesture_tape, start_record_time,
                last_trigger_time, ctlPc, replays>>

\* The start branch: a new session of the given role with a new, empty tape.
StartsSession(role) ==
    /\ ~recording /\ recording'
    /\ current_role' = role
    /\ start_record_time' = cnow
    /\ heap'[gesture_tape'] = <<>>
    /\ ctlPc' = ctlPc

\* The stop branch: the session ends and its processing is pending.
StopsSession == recording /\ ~recording' /\ ctlPc' = "stopped"

\* Parts of C9 that hold as claimed: a start trigger is taken only in Idle
\* (Pointing_Up, alone or together with Victory, to role English; Victory
\* alone to role Foreign), a stop trigger only while recording; a stop
\* trigger in Idle changes nothing: no transition, no processing, no tape.
C9_Accepts ==
    /\ recording' /\ ~recording =>
          \E label \in CtlLabels :
             /\ MainRead(label) /\ StartTrigger(label)
             /\ StartsSession(IF Contains("Pointing_Up", label)
                              THEN "English" ELSE "Foreign")
    /\ (ctlPc' = "stopped" /\ ctlPc # "stopped") \/ (recording /\ ~recording') =>
          \E label \in CtlLabels :
             MainRead(label) /\ StopTrigger(label) /\ StopsSession
    /\ \A label \in CtlLabels :
          /\ ( /\ MainRead(label) /\ ~recording /\ StartTrigger(label)
               /\ DebouncePassed(cnow, last_trigger_time) ) => recording'
          /\ (MainRead(label) /\ ~recording /\ StopTrigger(label)) =>
                NoTransition /\ heap' = heap

\* C9 as claimed: besides the above, a start trigger read while recording
\* leaves the state, the role, the start time and the tape unchanged.
C9_StartWhileRecordingNoChange ==
    [][ /\ C9_Accepts
        /\ \A label \in CtlLabels :
              (MainRead(label) /\ recording /\ StartTrigger(label)) =>
                  NoTransition /\ heap' = heap
      ]_vars

\* C9 as amended: a start trigger read while recording leaves the state, the
\* role, the start time and the binding of the tape unchanged and does not
\* reset the tape; the tape grows by one record, the trigger message itself.
C9_StartWhileRecordingAppends ==
    [][ /\ C9_Accepts
        /\ \A label \in CtlLabels :
              (MainRead(label) /\ recording /\ StartTrigger(label)) =>
                  /\ NoTransition
                  /\ Len(heap') = Len(heap)
                  /\ \A id \in DOMAIN heap : id # gesture_tape => heap'[id] = heap[id]
                  /\ Len(Tape') = Len(Tape) + 1
                  /\ SubSeq(Tape', 1, Len(Tape)) = Tape
                  /\ Tape'[Len(Tape')].gesture = label
                  /\ Tape'[Len(Tape')].time = cnow - start_record_time
      ]_vars

\* C9 witness: a session is recording and a start trigger read after the
\* debounce interval sits in its tape: it was captured, not acted on.
C9_Witness ==
    /\ recording
    /\ \E i \in DOMAIN Tape :
          StartTrigger(Tape[i].gesture) /\ Tape[i].time > DebounceTicks

\* C10: every record of every tape was delivered as a live classifier event.
\* (Stated as claimed; the hub relays a replayed FORCE:<label> as the bare
\* label, which main cannot tell from a live one.)
C10_TapeHoldsLiveOnly ==
    \A id \in DOMAIN heap :
        \A i \in DOMAIN heap[id] : heap[id][i].origin = "live"

\* ---------------------------------------------------------- claims: tape
\* Some list of the heap has more records after the step than before.
Grows(id) == id \in DOMAIN heap /\ id \in DOMAIN heap' /\ Len(heap'[id]) > Len(heap[id])

\* C11: a record is appended only by main reading a message while a session
\* is recording, and only to that session's tape: a list created by a step
\* is empty (nothing read before the start is in it), no list grows while
\* recording is False (nothing after the stop), and records already in a
\* list that grows stay as they are.
C11_AppendOnlyWhileRecording ==
    [][ /\ \A id \in DOMAIN heap' : id \notin DOMAIN heap => heap'[id] = <<>>
        /\ (recording' /\ ~recording) => heap'[gesture_tape'] = <<>>
        /\ \A id \in DOMAIN heap :
              Grows(id) =>
                 /\ recording
                 /\ id = gesture_tape /\ gesture_tape' = gesture_tape
                 /\ \E label \in CtlLabels \cup {SayMsg} : MainRead(label)
                 /\ Len(heap'[id]) = Len(heap[id]) + 1
                 /\ SubSeq(heap'[id], 1, Len(heap[id])) = heap[id]
                 /\ heap'[id][Len(heap'[id])].time = cnow - start_record_time
      ]_vars

\* C11 witness: a session was stopped with the stop trigger as its tape's one
\* record; afterwards its replay's FORCE: message came back from the hub and
\* main read it while idle: the tape is as it was at the stop.
C11_Witness ==
    /\ ~recording /\ ctlPc = "recv" /\ sock = <<>>
    /\ Len(Tape) = 1 /\ StopTrigger(Tape[1].gesture)
    /\ \E i \in DOMAIN replays : replays[i].pc = "play" /\ replays[i].idx > 1

\* -------------------------------------------------------- claims: replay
\* No record of the tape has a label other than NONE.
AllNone(tape) == \A k \in DOMAIN tape : Contains("NONE", tape[k].gesture)

\* The step in which a replay thread sends a message: the hub relays it and
\* the socket of its peers gets one more message.
ReplaySends == Len(sock') > Len(sock)

\* C12: replay_gestures run on a tape whose records are all NONE sends
\* nothing.  (Stated as claimed; with no record found, first_move_time
\* stays 0 and no record's time is below it.)
C12_AllNoneTapeSendsNothing == [][ AllNone(Tape) => ~ReplaySends ]_vars

\* C13: replay_gestures run on a tape with a non-NONE record sends
\* FORCE:<gesture> for exactly the records from the first non-NONE one
\* onward, one by one in tape order, each no earlier than start_playback +
\* (its time - the first non-NONE record's time); the records before that
\* one are passed over without a send; the thread ends only past the last
\* record.  (Stated as claimed; the code passes over a record by its time
\* stamp, not by its place.)
C13_ReplaysFromFirstMove ==
    [][ (replays # <<>> /\ replays[1].pc = "play" /\ ~AllNone(Tape)) =>
           LET r == replays[1]
               k == r.idx
               fm == FirstMove(Tape)
           IN  /\ ReplaySends =>
                     /\ k \in fm..Len(Tape)
                     /\ sock' = sock \o HubRelay(ForceMsg(Tape[k].gesture))
                     /\ cnow >= r.start + (Tape[k].time - Tape[fm].time)
                     /\ replays' # <<>> /\ replays'[1].idx = k + 1
               /\ (replays' # replays /\ ~ReplaySends) =>
                     IF k > Len(Tape) THEN replays' = <<>>
                     ELSE k < fm /\ replays' # <<>> /\ replays'[1].idx = k + 1
               /\ replays' = <<>> => k > Len(Tape)
      ]_vars

\* ---------------------------------------------------------- claims: lock
\* C14: while a sendall to one peer has not returned, the hub's other tasks
\* can still take their next step: the connections after the hung one in the
\* registry can be written to, a new connection can be accepted, a reader
\* with a SAY: or FORCE: message can route it, and a reader whose connection
\* is gone can remove it.  (Stated as claimed; the sendall is made with
\* self.lock held, and each of these steps needs the lock.)
C14_HungPeerBlocksNobody ==
    (HubAlive /\ blockedOn # {}) =>
        /\ sendIdx < Len(clients) =>
              \E t \in {Camera} \cup Conns : ENABLED WriteNext(t)
        /\ (server_started = "ok" /\ \E c \in Conns : connState[c] = "free") =>
              ENABLED AcceptLocked
        /\ \A c \in Conns :
              /\ (rpc[c] = "recv" /\ connState[c] = "open") =>
                    \E m \in PeerMsgs : ENABLED ReaderEnter(c, m)
              /\ (rpc[c] = "recv" /\ connState[c] = "closed") =>
                    ENABLED CleanupLocked(c)

C16_CloudFailureAborts ==
    [][ /\ (ctlPc = "stopped" /\ processed' = "abort") =>
              /\ replays' = replays /\ sock' = sock
              /\ ~recording' /\ ctlPc' = "recv"
        /\ (processed = "abort" /\ processed' = "abort") =>
              /\ Len(replays') <= Len(replays)
              /\ Len(sock') > Len(sock) => sock'[Len(sock')].origin # "say"
              /\ ctlPc = "recv" /\ ctlPc' = "recv"
        /\ (processed = "abort" /\ ~recording) =>
              \A label \in CtlLabels :
                 /\ sock = <<>> /\ HasRoom(label) => ENABLED MainRecvLive(label)
                 /\ ( /\ MainRead(label) /\ StartTrigger(label)
                      /\ DebouncePassed(cnow, last_trigger_time) ) =>
                        StartsSession(IF Contains("Pointing_Up", label)
                                      THEN "English" ELSE "Foreign")
      ]_vars

\* C16 witness: the processing of the latest stop was aborted and a new
\* session has been started since.
C16_Witness ==
    /\ processed = "abort" /\ recording
    /\ start_record_time >= last_trigger_time /\ start_record_time > StartTime

\* C17: no sendall to a peer is made while self.lock is held.  (Stated as
\* claimed; send_signal's loop of writes is the body of its with block.)
C17_NoWriteUnderLock ==
    [][ (\E t \in {Camera} \cup Conns : WriteNext(t)) => lock = {} ]_vars

\* ------------------------------------------------------ claims: deadline
\* C18: override_until never decreases, whatever the interleaving of the
\* readers.  (Stated as claimed; a reader computes time.time() + 0.3 and
\* stores it in two steps, and another reader's raise may fall in between.)
C18_OverrideMonotone == [][ override_until' >= override_until ]_vars

\* ------------------------------------------------- claims: stale replay
\* C19: a replay thread never reads a record of a tape that is being
\* recorded: the list its loop runs over is the stopped session's, whenever
\* a new session starts.  (Stated as claimed; the thread looks gesture_tape
\* up again at each of its three uses, and start_recording rebinds it.)
C19_ReplayReadsFrozenTape ==
    [][ \A i \in DOMAIN replays :
           ( /\ replays[i].pc = "play"
             /\ replays[i].idx <= Len(heap[replays[i].list])
             /\ ReplayStep(i) ) =>
               ~(recording /\ replays[i].list = gesture_tape)
      ]_vars

\* ------------------------------------------------- claims: tape at Stop
\* The record main makes of message at the current time.
RecordOf(message) ==
    \E o \in {"live", "say", "forced"} :
        Tape'[Len(Tape')] = [time |-> cnow - start_record_time,
                             gesture |-> message, origin |-> o]

\* The messages main's next read may return.
Readable == CtlLabels \cup {sock[k].msg : k \in DOMAIN sock}

ReaderRead(c, message) ==
    \/ ReaderDrop(c, message)
    \/ ReaderSay(c, message)
    \/ ReaderForce(c, message)

\* message has neither "SAY:" nor "FORCE:" in it.
Unrouted(message) == ~Contains("SAY:", message) /\ ~Contains("FORCE:", message)

\* C21: a message the hub reads from a peer that contains neither SAY: nor
\* FORCE: (LANG:English, a bare label) is dropped: the step that reads it
\* calls send_signal for no payload and writes to no connection, leaves
\* override_until and the registry as they are, and the reader goes on to its
\* next recv.
C21_UnroutedIsDropped ==
    [][ \A c \in Conns :
          (rpc[c] = "recv" /\ connState[c] = "open") =>
              \/ /\ UNCHANGED <<lastCall, wire, sendErr>>
                 /\ UNCHANGED override_until
                 /\ UNCHANGED <<clients, connState>>
                 /\ rpc'[c] = "recv" /\ UNCHANGED rval
              \/ \A message \in PeerMsgs :
                    Unrouted(message) => ~ReaderRead(c, message)
      ]_vars

\* C21 witness: with two peers registered, a forced label broadcast and the
\* deadline raised, a reader is at its recv on an open connection and the
\* message it reads there is LANG:English or a bare label: the drop is taken
\* in this state and leaves it as it is.
C21_Witness ==
    /\ Len(clients) = 2
    /\ lastCall.origin = "force" /\ override_until > 0
    /\ \E c \in Conns :
          /\ rpc[c] = "recv" /\ connState[c] = "open"
          /\ ENABLED ReaderDrop(c, <<"LANG:", "English">>)
          /\ ENABLED ReaderDrop(c, <<"Open_Palm">>)
          /\ ~ENABLED ReaderSay(c, <<"LANG:", "English">>)
          /\ ~ENABLED ReaderForce(c, <<"Open_Palm">>)

====
